---- MODULE Spec2Model ----
(***************************************************************************)
(* The interactive forecasting loop of analiz.py (the loop at the end of   *)
(* the script, with the input helpers ask_choice, ask_yesno and ask_int),  *)
(* as a state machine.  One action is one call of input(): the line the    *)
(* user types (or the interrupt) and everything the script does with it    *)
(* until it blocks in input() again; the loop over the matched subjects is *)
(* one action per subject.                                                 *)
(*                                                                         *)
(* Text is a sequence of one-character strings, so that strip(), lower(),  *)
(* split(","), int() and the substring test `in` are computed.             *)
(***************************************************************************)
EXTENDS Integers, Sequences, FiniteSets, TLC

VARIABLES
    df_alan_yillik,      \* rows <<Yil, Alan, YayinSayisi>> of query 5, in result order
    TARGET_DEFAULT,      \* the configured default target year
    pc,                  \* the input() call the script is blocked in, or EXIT / CRASH
    secim,               \* menu choice of this iteration
    alan_mapping,        \* dict lower(label) -> label, as a sequence of <<key, value>>
    alan_input,          \* the stripped subject line of mode 2
    top_alanlar_tahmin,  \* top-10 labels (mode 1) or the typed tokens (mode 2)
    eslesen_alanlar,     \* matched canonical labels
    hedef_yil,           \* the target year
    model_sec,           \* "prophet" or "lm"
    tahmin_sonuclari,    \* forecast results, in the order they were appended
    idx,                 \* position of the for loop over eslesen_alanlar
    fit_log,             \* subjects handed to Prophet.fit / np.polyfit since the last reset
    files,               \* chart files this iteration of the loop has written
    out,                 \* the last message printed
    last                 \* the last input event: the prompt, what was typed, what came back

vars == <<df_alan_yillik, TARGET_DEFAULT, pc, secim, alan_mapping, alan_input,
          top_alanlar_tahmin, eslesen_alanlar, hedef_yil, model_sec,
          tahmin_sonuclari, idx, fit_log, files, out, last>>

---------------------------------------------------------------------------
(* Bounds of the model *)

\* rows of df_alan_yillik
MaxRows == 3

\* subject labels of the data: one is a substring of the other
Labels == { <<"C","h">>, <<"C","h",","," ","A">> }

\* publication years of the data (inside YEAR_MIN..YEAR_MAX)
DataYears == {2023, 2024}

\* publication counts of a row
Counts == {1, 2}

\* values of the configured default target year: below the allowed range,
\* the value the script ships with, above the allowed range
TargetDefaults == {2020, 2026, 2130}

\* raw yhat values the fitted Prophet model may return for the target year
ProphetYhat == {-1, 2}

---------------------------------------------------------------------------
(* Program constants *)

YEAR_MIN == 2016
YEAR_MAX == 2024
MODEL_DEFAULT == <<"p","r","o","p","h","e","t">>
LM == <<"l","m">>
EVET == <<"e","v","e","t">>
\* "hayır"; the dotless i is written i
HAYIR == <<"h","a","y","i","r">>
\* ALLOWED_MAX_YEAR = DATA_LAST_YEAR + 100
YearSpan == 100
\* son_bes_yil = max year - 4
SonBesYilGeri == 4
\* nlargest(10)
TopN == 10
\* alan[:20] in the chart file name
NameCut == 20

---------------------------------------------------------------------------
(* Text: str.strip, str.lower, str.split(","), the `in` test, int() *)

Min(a, b) == IF a < b THEN a ELSE b
Max(a, b) == IF a > b THEN a ELSE b

IsSpace(c) == c = " "

RECURSIVE LStrip(_)
LStrip(s) == IF s # <<>> /\ IsSpace(Head(s)) THEN LStrip(Tail(s)) ELSE s

RECURSIVE RStrip(_)
RStrip(s) ==
    IF s # <<>> /\ IsSpace(s[Len(s)]) THEN RStrip(SubSeq(s, 1, Len(s) - 1)) ELSE s

Strip(s) == RStrip(LStrip(s))

LowerChar(c) ==
    CASE c = "A" -> "a" [] c = "C" -> "c" [] c = "E" -> "e" [] c = "H" -> "h"
      [] c = "L" -> "l" [] c = "M" -> "m" [] c = "N" -> "n" [] c = "P" -> "p"
      [] OTHER -> c

Lower(s) == [i \in 1..Len(s) |-> LowerChar(s[i])]

\* s.split(","): the pieces between the commas, empty pieces included
RECURSIVE SplitFrom(_, _)
SplitFrom(s, cur) ==
    IF s = <<>> THEN <<cur>>
    ELSE IF Head(s) = "," THEN <<cur>> \o SplitFrom(Tail(s), <<>>)
    ELSE SplitFrom(Tail(s), Append(cur, Head(s)))

Split(s) == SplitFrom(s, <<>>)

\* a in b, for strings
IsSubstr(a, b) ==
    \E i \in 0..(Len(b) - Len(a)) : SubSeq(b, i + 1, i + Len(a)) = a

Digits == {"0","1","2","3","4","5","6","7","8","9"}

DigitVal(c) ==
    CASE c = "0" -> 0 [] c = "1" -> 1 [] c = "2" -> 2 [] c = "3" -> 3
      [] c = "4" -> 4 [] c = "5" -> 5 [] c = "6" -> 6 [] c = "7" -> 7
      [] c = "8" -> 8 [] c = "9" -> 9

RECURSIVE DigitsVal(_, _)
DigitsVal(s, acc) ==
    IF s = <<>> THEN acc ELSE DigitsVal(Tail(s), 10 * acc + DigitVal(Head(s)))

\* int(raw) for a stripped raw: an optional sign and decimal digits;
\* anything else raises ValueError (ok = FALSE)
ParseInt(s) ==
    LET signed == s # <<>> /\ Head(s) \in {"-", "+"}
        body   == IF signed THEN Tail(s) ELSE s
    IN  IF body # <<>> /\ \A i \in 1..Len(body) : body[i] \in Digits
        THEN [ok |-> TRUE,
              val |-> IF signed /\ Head(s) = "-" THEN 0 - DigitsVal(body, 0)
                      ELSE DigitsVal(body, 0)]
        ELSE [ok |-> FALSE, val |-> 0]

\* code points of the characters of the labels, for the sort order of groupby
CharCode(c) ==
    CASE c = " " -> 32 [] c = "," -> 44 [] c = "A" -> 65 [] c = "C" -> 67
      [] c = "P" -> 80 [] c = "a" -> 97 [] c = "c" -> 99 [] c = "h" -> 104
      [] c = "p" -> 112 [] OTHER -> 122

\* a < b, for strings
RECURSIVE StrLess(_, _)
StrLess(a, b) ==
    IF b = <<>> THEN FALSE
    ELSE IF a = <<>> THEN TRUE
    ELSE IF Head(a) # Head(b) THEN CharCode(Head(a)) < CharCode(Head(b))
    ELSE StrLess(Tail(a), Tail(b))

---------------------------------------------------------------------------
(* The data: query 5 and what the script derives from it *)

Row == [Yil : DataYears, Alan : Labels, YayinSayisi : Counts]

\* WHERE SourcePublishYear BETWEEN YEAR_MIN AND YEAR_MAX GROUP BY t.Yil, t.Alan
\* ORDER BY t.Yil, YayinSayisi DESC: one row per (year, subject), years
\* ascending, counts descending inside a year, rows of equal count in the
\* order the engine happens to return them
IsQueryResult(s) ==
    /\ \A i \in 1..Len(s) : YEAR_MIN <= s[i].Yil /\ s[i].Yil <= YEAR_MAX
    /\ \A i, j \in 1..Len(s) :
        i < j =>
            /\ <<s[i].Yil, s[i].Alan>> # <<s[j].Yil, s[j].Alan>>
            /\ \/ s[i].Yil < s[j].Yil
               \/ s[i].Yil = s[j].Yil /\ s[i].YayinSayisi >= s[j].YayinSayisi

Datasets ==
    { s \in UNION { [1..n -> Row] : n \in 1..MaxRows } : IsQueryResult(s) }

RECURSIVE SeqMax(_)
SeqMax(s) == IF Len(s) = 1 THEN s[1] ELSE Max(s[1], SeqMax(Tail(s)))

Yillar(df) == [i \in 1..Len(df) |-> df[i].Yil]

DATA_LAST_YEAR == SeqMax(Yillar(df_alan_yillik))
ALLOWED_MIN_YEAR == DATA_LAST_YEAR + 1
ALLOWED_MAX_YEAR == DATA_LAST_YEAR + YearSpan

\* df["Alan"].unique(): the labels in the order they first appear
RECURSIVE Unique(_, _)
Unique(s, seen) ==
    IF s = <<>> THEN <<>>
    ELSE IF Head(s).Alan \in seen THEN Unique(Tail(s), seen)
    ELSE <<Head(s).Alan>> \o Unique(Tail(s), seen \cup {Head(s).Alan})

\* d[k] = v on a dict kept in insertion order
DictPut(d, k, v) ==
    IF \E i \in 1..Len(d) : d[i][1] = k
    THEN [i \in 1..Len(d) |-> IF d[i][1] = k THEN <<k, v>> ELSE d[i]]
    ELSE Append(d, <<k, v>>)

RECURSIVE BuildMapping(_, _)
BuildMapping(labels, d) ==
    IF labels = <<>> THEN d
    ELSE BuildMapping(Tail(labels), DictPut(d, Lower(Head(labels)), Head(labels)))

AlanMapping(df) == BuildMapping(Unique(df, {}), <<>>)

\* rows of one subject, in df order
RECURSIVE RowsOf(_, _)
RowsOf(df, alan) ==
    IF df = <<>> THEN <<>>
    ELSE IF Head(df).Alan = alan THEN <<Head(df)>> \o RowsOf(Tail(df), alan)
    ELSE RowsOf(Tail(df), alan)

RECURSIVE SumY(_)
SumY(rows) == IF rows = <<>> THEN 0 ELSE Head(rows).YayinSayisi + SumY(Tail(rows))

\* rows with Yil >= son_bes_yil
RECURSIVE SonBesYil(_, _)
SonBesYil(df, from) ==
    IF df = <<>> THEN <<>>
    ELSE IF Head(df).Yil >= from THEN <<Head(df)>> \o SonBesYil(Tail(df), from)
    ELSE SonBesYil(Tail(df), from)

\* a ranks before b in groupby("Alan").mean().nlargest(..): the larger mean
\* first; equal means keep the groupby order, which is sorted by label
RanksBefore(df5, a, b) ==
    LET ra == RowsOf(df5, a)
        rb == RowsOf(df5, b)
        l  == SumY(ra) * Len(rb)
        r  == SumY(rb) * Len(ra)
    IN  l > r \/ (l = r /\ StrLess(a, b))

RECURSIVE NLargest(_, _, _)
NLargest(df5, S, n) ==
    IF n = 0 \/ S = {} THEN <<>>
    ELSE LET best == CHOOSE a \in S : \A b \in S \ {a} : RanksBefore(df5, a, b)
         IN  <<best>> \o NLargest(df5, S \ {best}, n - 1)

Top10(df) ==
    LET df5 == SonBesYil(df, SeqMax(Yillar(df)) - SonBesYilGeri)
    IN  NLargest(df5, {df5[i].Alan : i \in 1..Len(df5)}, TopN)

---------------------------------------------------------------------------
(* The subject matcher *)

\* the inner loop over alan_mapping: the value of the first key the token
\* equals or is contained in, as a list of one label; no hit: the empty list
RECURSIVE FirstHit(_, _)
FirstHit(token, mapping) ==
    IF mapping = <<>> THEN <<>>
    ELSE IF token = Head(mapping)[1] \/ IsSubstr(token, Head(mapping)[1])
         THEN <<Head(mapping)[2]>>
    ELSE FirstHit(token, Tail(mapping))

\* mode 1: every top-10 label, lower-cased, through the scan
RECURSIVE MatchTop10(_, _)
MatchTop10(labels, mapping) ==
    IF labels = <<>> THEN <<>>
    ELSE FirstHit(Lower(Head(labels)), mapping) \o MatchTop10(Tail(labels), mapping)

\* mode 2: every typed token through the scan
RECURSIVE MatchUser(_, _)
MatchUser(tokens, mapping) ==
    IF tokens = <<>> THEN <<>>
    ELSE FirstHit(Head(tokens), mapping) \o MatchUser(Tail(tokens), mapping)

\* [a.strip().lower() for a in alan_input.split(",") if a.strip()]
RECURSIVE StripLowerNonEmpty(_)
StripLowerNonEmpty(pieces) ==
    IF pieces = <<>> THEN <<>>
    ELSE IF Strip(Head(pieces)) # <<>>
         THEN <<Lower(Strip(Head(pieces)))>> \o StripLowerNonEmpty(Tail(pieces))
    ELSE StripLowerNonEmpty(Tail(pieces))

Tokens(alan_in) == StripLowerNonEmpty(Split(alan_in))

---------------------------------------------------------------------------
(* The input helpers.  An input event is a typed line or an interrupt      *)
(* (KeyboardInterrupt, EOFError).  A helper either returns a value or goes *)
(* round its while loop and asks again.                                    *)

Line(text) == [kind |-> "line", text |-> text]
Interrupt == [kind |-> "interrupt", text |-> <<>>]

NoDefault == [set |-> FALSE, val |-> <<>>]
Default(v) == [set |-> TRUE, val |-> v]

Return(v) == [ret |-> TRUE, val |-> v]
Again(why) == [ret |-> FALSE, val |-> why]

AskChoice(ev, options, default) ==
    IF ev.kind = "interrupt" THEN Again("iptal")
    ELSE LET raw == Strip(ev.text)
             key == Lower(raw)
         IN  IF raw = <<>> /\ default.set THEN Return(default.val)
             ELSE IF \E o \in options : Lower(o) = key
                  THEN Return(CHOOSE o \in options : Lower(o) = key)
             ELSE Again("gecersiz")

YesNoMapping ==
    { << <<"e">>, EVET >>, << EVET, EVET >>, << <<"y">>, EVET >>,
      << <<"y","e","s">>, EVET >>,
      << <<"h">>, HAYIR >>, << HAYIR, HAYIR >>, << <<"n">>, HAYIR >>,
      << <<"n","o">>, HAYIR >> }

\* ask_yesno taking any unknown answer for "hayır"
AskYesNoLenient(ev, default) ==
    IF ev.kind = "interrupt" THEN Again("iptal")
    ELSE LET raw == Lower(Strip(ev.text))
         IN  IF raw = <<>> /\ default.set THEN Return(default.val)
             ELSE IF \E m \in YesNoMapping : m[1] = raw
                  THEN Return((CHOOSE m \in YesNoMapping : m[1] = raw)[2])
             ELSE Return(HAYIR)

AskYesNo(ev, default) ==
    IF ev.kind = "interrupt" THEN Again("iptal")
    ELSE LET raw == Lower(Strip(ev.text))
         IN  IF raw = <<>> /\ default.set THEN Return(default.val)
             ELSE IF \E m \in YesNoMapping : m[1] = raw
                  THEN Return((CHOOSE m \in YesNoMapping : m[1] = raw)[2])
             ELSE Again("gecersiz")

\* ask_int without the max_val test
AskIntNoMax(ev, default, min_val, max_val) ==
    IF ev.kind = "interrupt" THEN Again("iptal")
    ELSE LET raw == Strip(ev.text)
             p   == ParseInt(raw)
         IN  IF raw = <<>> /\ default.set THEN Return(default.val)
             ELSE IF ~p.ok THEN Again("gecersiz")
             ELSE IF p.val < min_val THEN Again("en_az")
             ELSE Return(p.val)

AskInt(ev, default, min_val, max_val) ==
    IF ev.kind = "interrupt" THEN Again("iptal")
    ELSE LET raw == Strip(ev.text)
             p   == ParseInt(raw)
         IN  IF raw = <<>> /\ default.set THEN Return(default.val)
             ELSE IF ~p.ok THEN Again("gecersiz")
             ELSE IF p.val < min_val THEN Again("en_az")
             ELSE IF p.val > max_val THEN Again("en_fazla")
             ELSE Return(p.val)

---------------------------------------------------------------------------
(* The forecast of one subject (the body of `for alan in eslesen_alanlar`) *)

RECURSIVE SumX(_)
SumX(rows) == IF rows = <<>> THEN 0 ELSE Head(rows).Yil + SumX(Tail(rows))

RECURSIVE SumXX(_)
SumXX(rows) ==
    IF rows = <<>> THEN 0 ELSE Head(rows).Yil * Head(rows).Yil + SumXX(Tail(rows))

RECURSIVE SumXY(_)
SumXY(rows) ==
    IF rows = <<>> THEN 0
    ELSE Head(rows).Yil * Head(rows).YayinSayisi + SumXY(Tail(rows))

\* round() of the non-negative fraction num / den: to the nearest integer,
\* a tie to the even one
RoundHalfEven(num, den) ==
    LET q == num \div den
        r == num % den
    IN  IF 2 * r < den THEN q
        ELSE IF 2 * r > den THEN q + 1
        ELSE IF q % 2 = 0 THEN q ELSE q + 1

\* np.polyfit(years, y_vals, 1), np.polyval(coef, hedef_yil), max(0.0, .),
\* round(.): the least-squares line as a fraction, evaluated at the target
LinearForecast(rows, yil) ==
    LET n   == Len(rows)
        den == n * SumXX(rows) - SumX(rows) * SumX(rows)
        num == (n * SumXY(rows) - SumX(rows) * SumY(rows)) * yil
               + (SumY(rows) * SumXX(rows) - SumX(rows) * SumXY(rows))
    IN  IF num <= 0 THEN 0 ELSE RoundHalfEven(num, den)

\* make_future_dataframe(periods, freq='YS'): the years of the history and
\* `periods` more years after the last one
FutureYears(rows, periods) ==
    {rows[i].Yil : i \in 1..Len(rows)}
        \cup {SeqMax(Yillar(rows)) + k : k \in 1..periods}

\* forecast["yhat"].clip(lower=0), then round()
ClipRound(yhat) == IF yhat < 0 THEN 0 ELSE yhat

\* the loop body without the `count() < 2` test
ForecastOneNoCountCheck(df, alan, yil, model, yhat) ==
    LET rows == RowsOf(df, alan)
    IN  IF rows = <<>>
        THEN [skip |-> TRUE, why |-> "bulunamadi", fitted |-> FALSE, sonuc |-> 0]
        ELSE IF model = LM
        THEN IF Cardinality({rows[i].Yil : i \in 1..Len(rows)}) < 2
             THEN [skip |-> TRUE, why |-> "yeterli_yil_yok", fitted |-> FALSE,
                   sonuc |-> 0]
             ELSE [skip |-> FALSE, why |-> "tahmin", fitted |-> TRUE,
                   sonuc |-> LinearForecast(rows, yil)]
        ELSE LET periods == yil - SeqMax(Yillar(rows))
             IN  IF yil \notin FutureYears(rows, periods)
                 THEN [skip |-> TRUE, why |-> "tahmin_uretilemedi", fitted |-> TRUE,
                       sonuc |-> 0]
                 ELSE [skip |-> FALSE, why |-> "tahmin", fitted |-> TRUE,
                       sonuc |-> ClipRound(yhat)]

\* the outcome of one pass of the loop body: skipped with a warning, or a
\* prediction to append; fitted says whether a model was fitted on the way.
\* yhat is what the fitted Prophet model answers for the target year.
ForecastOne(df, alan, yil, model, yhat) ==
    LET rows == RowsOf(df, alan)
    IN  IF rows = <<>>
        THEN [skip |-> TRUE, why |-> "bulunamadi", fitted |-> FALSE, sonuc |-> 0]
        ELSE IF Len(rows) < 2
        THEN [skip |-> TRUE, why |-> "yeterli_veri_yok", fitted |-> FALSE, sonuc |-> 0]
        ELSE IF model = LM
        THEN IF Cardinality({rows[i].Yil : i \in 1..Len(rows)}) < 2
             THEN [skip |-> TRUE, why |-> "yeterli_yil_yok", fitted |-> FALSE,
                   sonuc |-> 0]
             ELSE [skip |-> FALSE, why |-> "tahmin", fitted |-> TRUE,
                   sonuc |-> LinearForecast(rows, yil)]
        ELSE LET periods == yil - SeqMax(Yillar(rows))
             IN  IF yil \notin FutureYears(rows, periods)
                 THEN [skip |-> TRUE, why |-> "tahmin_uretilemedi", fitted |-> TRUE,
                       sonuc |-> 0]
                 ELSE [skip |-> FALSE, why |-> "tahmin", fitted |-> TRUE,
                       sonuc |-> ClipRound(yhat)]

\* the result list carried over from the iteration before
KeepResults(old) == old

\* tahmin_sonuclari = [] before the loop over the subjects
FreshResults(old) == <<>>

\* eslesen_alanlar = [] before the scan of either mode
FreshMatches(old) == <<>>

\* f"{alan[:20]}_{yil}_tahmin.png"
ChartName(r) == <<SubSeq(r.alan, 1, Min(NameCut, Len(r.alan))), r.yil>>

ChartNames(results) == {ChartName(results[i]) : i \in 1..Len(results)}

---------------------------------------------------------------------------
(* What the user may type at each prompt *)

MenuLines == { <<"1">>, <<" ","2"," ">>, <<>>, <<"3">> }

YesNoLines == { <<"E">>, <<"n">>, <<>>, <<"x">> }

SubjectLines ==
    { <<"A",","," ","c","h">>, <<"c","h",",","c","h">>, <<"z">>, <<",">>, <<" ">> }

YearLines ==
    { <<"2","0","2","4">>, <<" ","2","1","2","4">>, <<"2","1","2","5">>, <<>>,
      <<"l","m">> }

ModelLines == { <<"L","M">>, <<>>, <<"x">> }

Events(lines) == {Line(l) : l \in lines} \cup {Interrupt}

---------------------------------------------------------------------------
(* The state machine *)

Unset == <<"u","n","s","e","t">>

Init ==
    /\ df_alan_yillik \in Datasets
    /\ TARGET_DEFAULT \in TargetDefaults
    /\ pc = "MENU"
    /\ secim = Unset
    /\ alan_mapping = <<>>
    /\ alan_input = Unset
    /\ top_alanlar_tahmin = <<>>
    /\ eslesen_alanlar = <<>>
    /\ hedef_yil = 0
    /\ model_sec = Unset
    /\ tahmin_sonuclari = <<>>
    /\ idx = 0
    /\ fit_log = <<>>
    /\ files = {}
    /\ out = <<"menu">>
    /\ last = [at |-> "START", ev |-> Interrupt, ret |-> FALSE]

\* the helper went round its loop: same prompt again, nothing else changes
AskAgain(ev, r) ==
    /\ last' = [at |-> pc, ev |-> ev, ret |-> FALSE]
    /\ out' = <<r.val>>
    /\ UNCHANGED <<df_alan_yillik, TARGET_DEFAULT, pc, secim, alan_mapping,
                   alan_input, top_alanlar_tahmin, eslesen_alanlar, hedef_yil,
                   model_sec, tahmin_sonuclari, idx, fit_log, files>>

\* the selection step without the `if not eslesen_alanlar` return to the menu
AfterMatchNoCheck(matches) ==
    /\ pc' = "VALIDATE_YEAR"
    /\ out' = <<>>

\* `if not eslesen_alanlar: ... continue`, else on to the year prompt
AfterMatch(matches) ==
    IF matches = <<>>
    THEN /\ pc' = "MENU"
         /\ out' = <<"eslesen_yok", "menu">>
    ELSE /\ pc' = "VALIDATE_YEAR"
         /\ out' = <<>>

\* secim = ask_choice("Seçiminiz (1/2): ", ["1","2"]), the mapping, and for
\* choice 1 the top-10 selection and its matching.  ask_choice returns only
\* "1" or "2", so the final else branch of the script (lines 425-429) has no
\* action.
Menu(ev) ==
    /\ pc = "MENU"
    /\ LET r == AskChoice(ev, {<<"1">>, <<"2">>}, NoDefault)
       IN  IF ~r.ret THEN AskAgain(ev, r)
           ELSE /\ last' = [at |-> pc, ev |-> ev, ret |-> TRUE]
                /\ secim' = r.val
                /\ alan_mapping' = AlanMapping(df_alan_yillik)
                /\ IF r.val = <<"1">>
                   THEN /\ top_alanlar_tahmin' = Top10(df_alan_yillik)
                        /\ eslesen_alanlar' =
                              FreshMatches(eslesen_alanlar)
                                \o MatchTop10(top_alanlar_tahmin', alan_mapping')
                        /\ AfterMatch(eslesen_alanlar')
                   ELSE /\ pc' = "SHOW_VOCAB"
                        /\ out' = <<>>
                        /\ UNCHANGED <<top_alanlar_tahmin, eslesen_alanlar>>
                /\ UNCHANGED <<df_alan_yillik, TARGET_DEFAULT, alan_input,
                               hedef_yil, model_sec, tahmin_sonuclari, idx,
                               fit_log, files>>

\* alan_goster = ask_yesno(..., default="hayır")
ShowVocab(ev) ==
    /\ pc = "SHOW_VOCAB"
    /\ LET r == AskYesNo(ev, Default(HAYIR))
       IN  IF ~r.ret THEN AskAgain(ev, r)
           ELSE /\ last' = [at |-> pc, ev |-> ev, ret |-> TRUE]
                /\ pc' = "USER_INPUT"
                /\ out' = IF r.val = EVET THEN <<"alan_listesi">> ELSE <<>>
                /\ UNCHANGED <<df_alan_yillik, TARGET_DEFAULT, secim, alan_mapping,
                               alan_input, top_alanlar_tahmin, eslesen_alanlar,
                               hedef_yil, model_sec, tahmin_sonuclari, idx,
                               fit_log, files>>

\* alan_input = input(...).strip() in its own while loop, with no try
\* around it: an interrupt leaves the script as an unhandled exception
UserInput(ev) ==
    /\ pc = "USER_INPUT"
    /\ IF ev.kind = "interrupt"
       THEN /\ pc' = "CRASH"
            /\ last' = [at |-> pc, ev |-> ev, ret |-> FALSE]
            /\ out' = <<"traceback">>
            /\ UNCHANGED <<df_alan_yillik, TARGET_DEFAULT, secim, alan_mapping,
                           alan_input, top_alanlar_tahmin, eslesen_alanlar,
                           hedef_yil, model_sec, tahmin_sonuclari, idx, fit_log,
                           files>>
       ELSE /\ alan_input' = Strip(ev.text)
            /\ IF alan_input' = <<>>
               THEN /\ last' = [at |-> pc, ev |-> ev, ret |-> FALSE]
                    /\ out' = <<"en_az_bir_alan">>
                    /\ UNCHANGED <<pc, top_alanlar_tahmin, eslesen_alanlar>>
               ELSE /\ last' = [at |-> pc, ev |-> ev, ret |-> TRUE]
                    /\ top_alanlar_tahmin' = Tokens(alan_input')
                    /\ eslesen_alanlar' =
                          FreshMatches(eslesen_alanlar)
                            \o MatchUser(top_alanlar_tahmin', alan_mapping)
                    /\ AfterMatch(eslesen_alanlar')
            /\ UNCHANGED <<df_alan_yillik, TARGET_DEFAULT, secim, alan_mapping,
                           hedef_yil, model_sec, tahmin_sonuclari, idx, fit_log,
                           files>>

\* hedef_yil = ask_int(prompt_yil, default=max(TARGET_DEFAULT, ALLOWED_MIN_YEAR),
\*                     min_val=ALLOWED_MIN_YEAR, max_val=ALLOWED_MAX_YEAR)
ValidateYear(ev) ==
    /\ pc = "VALIDATE_YEAR"
    /\ LET r == AskInt(ev, Default(Max(TARGET_DEFAULT, ALLOWED_MIN_YEAR)),
                       ALLOWED_MIN_YEAR, ALLOWED_MAX_YEAR)
       IN  IF ~r.ret THEN AskAgain(ev, r)
           ELSE /\ last' = [at |-> pc, ev |-> ev, ret |-> TRUE]
                /\ hedef_yil' = r.val
                /\ pc' = "SELECT_MODEL"
                /\ out' = <<>>
                /\ UNCHANGED <<df_alan_yillik, TARGET_DEFAULT, secim, alan_mapping,
                               alan_input, top_alanlar_tahmin, eslesen_alanlar,
                               model_sec, tahmin_sonuclari, idx, fit_log, files>>

\* model_sec = ask_choice(..., ["prophet","lm"], default=MODEL_DEFAULT);
\* tahmin_sonuclari = []; the for loop starts at the first matched subject
SelectModel(ev) ==
    /\ pc = "SELECT_MODEL"
    /\ LET r == AskChoice(ev, {MODEL_DEFAULT, LM}, Default(MODEL_DEFAULT))
       IN  IF ~r.ret THEN AskAgain(ev, r)
           ELSE /\ last' = [at |-> pc, ev |-> ev, ret |-> TRUE]
                /\ model_sec' = r.val
                /\ tahmin_sonuclari' = FreshResults(tahmin_sonuclari)
                /\ fit_log' = <<>>
                /\ idx' = 1
                /\ pc' = "FORECAST"
                /\ out' = <<>>
                /\ UNCHANGED <<df_alan_yillik, TARGET_DEFAULT, secim, alan_mapping,
                               alan_input, top_alanlar_tahmin, eslesen_alanlar,
                               hedef_yil, files>>

\* the end of the loop without the `if not tahmin_sonuclari` test
AfterLoopAlwaysSave(results, said) ==
    /\ pc' = "OPTIONAL_SAVE"
    /\ out' = said

\* after the for loop: `if not tahmin_sonuclari` prints the failure and falls
\* through to the repeat prompt; otherwise the save prompt comes next
AfterLoop(results, said) ==
    IF results = <<>>
    THEN /\ pc' = "ASK_REPEAT"
         /\ out' = said \o <<"tahmin_yapilamadi", "tamamlandi">>
    ELSE /\ pc' = "OPTIONAL_SAVE"
         /\ out' = said

\* one pass of `for alan in eslesen_alanlar`, and after the last one the
\* check of the result list
Forecast ==
    /\ pc = "FORECAST"
    /\ \E yhat \in ProphetYhat :
         LET alan == eslesen_alanlar[idx]
             f    == ForecastOne(df_alan_yillik, alan, hedef_yil, model_sec, yhat)
         IN  /\ fit_log' = IF f.fitted THEN Append(fit_log, alan) ELSE fit_log
             /\ tahmin_sonuclari' =
                   IF f.skip THEN tahmin_sonuclari
                   ELSE Append(tahmin_sonuclari,
                               [alan |-> alan, yil |-> hedef_yil,
                                sonuc |-> f.sonuc, model_sec |-> model_sec])
             /\ IF idx < Len(eslesen_alanlar)
                THEN /\ idx' = idx + 1
                     /\ out' = <<f.why>>
                     /\ UNCHANGED pc
                ELSE /\ idx' = 0
                     /\ AfterLoop(tahmin_sonuclari', <<f.why>>)
    /\ UNCHANGED <<df_alan_yillik, TARGET_DEFAULT, secim, alan_mapping, alan_input,
                   top_alanlar_tahmin, eslesen_alanlar, hedef_yil, model_sec,
                   files, last>>

\* kaydet = ask_yesno(..., default="hayır"); on evet one savefig per result
OptionalSave(ev) ==
    /\ pc = "OPTIONAL_SAVE"
    /\ LET r == AskYesNo(ev, Default(HAYIR))
       IN  IF ~r.ret THEN AskAgain(ev, r)
           ELSE /\ last' = [at |-> pc, ev |-> ev, ret |-> TRUE]
                /\ files' = IF r.val = EVET
                            THEN files \cup ChartNames(tahmin_sonuclari)
                            ELSE files
                /\ out' = IF r.val = EVET THEN <<"kaydedildi", "tamamlandi">>
                          ELSE <<"kaydedilmedi", "tamamlandi">>
                /\ pc' = "ASK_REPEAT"
                /\ UNCHANGED <<df_alan_yillik, TARGET_DEFAULT, secim, alan_mapping,
                               alan_input, top_alanlar_tahmin, eslesen_alanlar,
                               hedef_yil, model_sec, tahmin_sonuclari, idx,
                               fit_log>>

\* tekrar = ask_yesno(..., default="hayır"): evet -> continue, else exit()
AskRepeat(ev) ==
    /\ pc = "ASK_REPEAT"
    /\ LET r == AskYesNo(ev, Default(HAYIR))
       IN  IF ~r.ret THEN AskAgain(ev, r)
           ELSE /\ last' = [at |-> pc, ev |-> ev, ret |-> TRUE]
                /\ IF r.val = EVET
                   THEN /\ pc' = "MENU"
                        /\ out' = <<"yeniden", "menu">>
                        /\ files' = {}
                   ELSE /\ pc' = "EXIT"
                        /\ out' = <<"sonlandirildi">>
                        /\ UNCHANGED files
                /\ UNCHANGED <<df_alan_yillik, TARGET_DEFAULT, secim, alan_mapping,
                               alan_input, top_alanlar_tahmin, eslesen_alanlar,
                               hedef_yil, model_sec, tahmin_sonuclari, idx,
                               fit_log>>

Next ==
    \/ \E ev \in Events(MenuLines) : Menu(ev)
    \/ \E ev \in Events(YesNoLines) : ShowVocab(ev)
    \/ \E ev \in Events(SubjectLines) : UserInput(ev)
    \/ \E ev \in Events(YearLines) : ValidateYear(ev)
    \/ \E ev \in Events(ModelLines) : SelectModel(ev)
    \/ Forecast
    \/ \E ev \in Events(YesNoLines) : OptionalSave(ev)
    \/ \E ev \in Events(YesNoLines) : AskRepeat(ev)

Spec == Init /\ [][Next]_vars

---------------------------------------------------------------------------
(* Vocabulary of the properties *)

\* the last action printed message m
Said(m) == \E i \in 1..Len(out) : out[i] = m

\* number of rows (observations) the data holds for a subject
ObsCount(alan) ==
    Cardinality({i \in 1..Len(df_alan_yillik) : df_alan_yillik[i].Alan = alan})

\* the largest year of the data
LastObservedYear ==
    CHOOSE y \in DataYears :
        /\ \E i \in 1..Len(df_alan_yillik) : df_alan_yillik[i].Yil = y
        /\ \A i \in 1..Len(df_alan_yillik) : df_alan_yillik[i].Yil <= y

\* the year lines a user may type, with the integer each one spells
TypedYears ==
    { << <<"2","0","2","4">>, 2024 >>, << <<" ","2","1","2","4">>, 2124 >>,
      << <<"2","1","2","5">>, 2125 >> }

\* the subject lines a user may type, with the tokens each one holds
TypedSubjects ==
    { << <<"A",","," ","c","h">>, << <<"a">>, <<"c","h">> >> >>,
      << <<"c","h",",","c","h">>, << <<"c","h">>, <<"c","h">> >> >>,
      << <<"z">>, << <<"z">> >> >>,
      << <<",">>, <<>> >> }

\* the lines that are an explicit answer at a prompt
ExplicitAnswers(at) ==
    CASE at = "MENU" -> { <<"1">>, <<" ","2"," ">> }
      [] at \in {"SHOW_VOCAB", "OPTIONAL_SAVE", "ASK_REPEAT"} -> { <<"E">>, <<"n">> }
      [] at = "USER_INPUT" -> {t[1] : t \in TypedSubjects}
      [] at = "VALIDATE_YEAR" ->
            {t[1] : t \in {u \in TypedYears :
                             /\ LastObservedYear + 1 <= u[2]
                             /\ u[2] <= LastObservedYear + 100}}
      [] at = "SELECT_MODEL" -> { <<"L","M">> }
      [] OTHER -> {}

\* the subjects of a result list, in order
Subjects(results) == [i \in 1..Len(results) |-> results[i].alan]

\* the members of a list of subjects that have at least two observations
RECURSIVE Sufficient(_)
Sufficient(alanlar) ==
    IF alanlar = <<>> THEN <<>>
    ELSE IF ObsCount(Head(alanlar)) >= 2
         THEN <<Head(alanlar)>> \o Sufficient(Tail(alanlar))
    ELSE Sufficient(Tail(alanlar))

---------------------------------------------------------------------------
(* C1: at the year prompt a typed integer inside [ALLOWED_MIN_YEAR,        *)
(* ALLOWED_MAX_YEAR] is returned unchanged and the loop goes on to the     *)
(* model prompt; a typed integer outside the range, or a line that is no   *)
(* integer, is not returned and the loop stays at the year prompt.         *)
C1_YearAcceptedIffInRange ==
    last.at = "VALIDATE_YEAR" =>
        /\ \A t \in TypedYears :
             last.ev = Line(t[1]) =>
                IF LastObservedYear + 1 <= t[2] /\ t[2] <= LastObservedYear + 100
                THEN last.ret /\ hedef_yil = t[2] /\ pc = "SELECT_MODEL"
                ELSE ~last.ret /\ pc = "VALIDATE_YEAR"
        /\ last.ev = Line(<<"l","m">>) => ~last.ret /\ pc = "VALIDATE_YEAR"

\* the largest allowed year was typed and accepted
C1_Witness ==
    /\ last.at = "VALIDATE_YEAR"
    /\ last.ev = Line(<<" ","2","1","2","4">>)
    /\ last.ret
    /\ hedef_yil = 2124
    /\ LastObservedYear = 2024
    /\ pc = "SELECT_MODEL"

(* C2: matching the lower-cased form of a canonical label returns that     *)
(* label, for every entry of the alias mapping; and the top-10 path, which *)
(* runs every top-10 label through the scan, gets the top-10 labels back.  *)
C2_MatcherIdempotent ==
    /\ \A i \in 1..Len(alan_mapping) :
         FirstHit(alan_mapping[i][1], alan_mapping) = <<alan_mapping[i][2]>>
    /\ secim = <<"1">> /\ last.at = "MENU" /\ last.ret =>
         eslesen_alanlar = top_alanlar_tahmin

(* C3, as stated: when the forecast stage ends with no result, the loop    *)
(* reports the failure and is back at the menu.                            *)
C3_ZeroResultsBackToMenu ==
    Said("tahmin_yapilamadi") => pc = "MENU"

(* C3, amended: when the forecast stage ends with no result, the loop      *)
(* reports the failure, does not ask to save and is at the repeat prompt;  *)
(* the save prompt is only ever asked with a non-empty result list, and    *)
(* the repeat prompt is reached straight from the forecast stage only     *)
(* with an empty result list.                                              *)
C3_ZeroResultsGoToRepeat ==
    /\ Said("tahmin_yapilamadi") =>
         pc = "ASK_REPEAT" /\ tahmin_sonuclari = <<>> /\ files = {}
    /\ pc = "OPTIONAL_SAVE" => tahmin_sonuclari # <<>>
    /\ pc = "ASK_REPEAT" /\ last.at = "SELECT_MODEL" =>
         tahmin_sonuclari = <<>> /\ Said("tahmin_yapilamadi")
    /\ last.at = "OPTIONAL_SAVE" => tahmin_sonuclari # <<>>

\* every matched subject was skipped and the loop waits at the repeat prompt
C3_Witness ==
    /\ pc = "ASK_REPEAT"
    /\ Said("tahmin_yapilamadi")
    /\ eslesen_alanlar # <<>>
    /\ tahmin_sonuclari = <<>>

(* C4: with an empty match list the loop reports the failure and is back   *)
(* at the menu in the same iteration: no prompt after the selection step,  *)
(* nor the forecast stage, is reached with an empty match list, and the    *)
(* process has not terminated.                                             *)
C4_EmptyMatchBackToMenu ==
    /\ pc \in {"VALIDATE_YEAR", "SELECT_MODEL", "FORECAST", "OPTIONAL_SAVE",
               "ASK_REPEAT"} => eslesen_alanlar # <<>>
    /\ /\ last.ret
       /\ \/ last.at = "USER_INPUT"
          \/ last.at = "MENU" /\ secim = <<"1">>
       /\ eslesen_alanlar = <<>>
       => pc = "MENU" /\ Said("eslesen_yok")

\* the typed subjects matched nothing and the menu is shown again
C4_Witness ==
    /\ last.at = "USER_INPUT"
    /\ last.ret
    /\ top_alanlar_tahmin # <<>>
    /\ eslesen_alanlar = <<>>
    /\ pc = "MENU"

(* C5: a matched subject with fewer than 2 observations is never handed to *)
(* model fitting and never appears in the result list, under either model; *)
(* the loop goes on after it: the results are the matched subjects with at *)
(* least 2 observations, in the order they were processed.                 *)
C5_InsufficientSubjectsSkipped ==
    /\ \A i \in 1..Len(fit_log) : ObsCount(fit_log[i]) >= 2
    /\ \A i \in 1..Len(tahmin_sonuclari) : ObsCount(tahmin_sonuclari[i].alan) >= 2
    /\ pc = "FORECAST" =>
         Subjects(tahmin_sonuclari)
            = Sufficient(SubSeq(eslesen_alanlar, 1, idx - 1))
    /\ pc \in {"OPTIONAL_SAVE", "ASK_REPEAT"} =>
         Subjects(tahmin_sonuclari) = Sufficient(eslesen_alanlar)

\* the first matched subject was skipped and a later one was forecast
C5_Witness ==
    /\ pc = "OPTIONAL_SAVE"
    /\ ObsCount(eslesen_alanlar[1]) < 2
    /\ Len(tahmin_sonuclari) >= 1
    /\ Len(tahmin_sonuclari) < Len(eslesen_alanlar)

C7_NothingLeaks ==
    /\ last.at = "ASK_REPEAT" /\ last.ret =>
         IF last.ev = Line(<<"E">>) THEN pc = "MENU" ELSE pc = "EXIT"
    /\ pc \in {"VALIDATE_YEAR", "SELECT_MODEL", "FORECAST", "OPTIONAL_SAVE",
               "ASK_REPEAT"} =>
         /\ secim = <<"2">> =>
              \E t \in TypedSubjects :
                  alan_input = t[1] /\ top_alanlar_tahmin = t[2]
         /\ secim = <<"1">> =>
              {top_alanlar_tahmin[i] : i \in 1..Len(top_alanlar_tahmin)}
                 = {df_alan_yillik[i].Alan : i \in 1..Len(df_alan_yillik)}
         /\ Len(eslesen_alanlar) <= Len(top_alanlar_tahmin)
         /\ \A i \in 1..Len(eslesen_alanlar) :
              \E j \in 1..Len(top_alanlar_tahmin) :
                  IsSubstr(Lower(top_alanlar_tahmin[j]), Lower(eslesen_alanlar[i]))
    /\ pc \in {"FORECAST", "OPTIONAL_SAVE", "ASK_REPEAT"} =>
         /\ Len(tahmin_sonuclari) <= Len(eslesen_alanlar)
         /\ \A i \in 1..Len(tahmin_sonuclari) :
              /\ tahmin_sonuclari[i].yil = hedef_yil
              /\ tahmin_sonuclari[i].model_sec = model_sec
              /\ \E j \in 1..Len(eslesen_alanlar) :
                    eslesen_alanlar[j] = tahmin_sonuclari[i].alan
    /\ \A f \in files :
         /\ f[2] = hedef_yil
         /\ \E i \in 1..Len(tahmin_sonuclari) : tahmin_sonuclari[i].alan = f[1]

\* a later iteration has read its own target year while the results of the
\* iteration before it, made for another year, are still in the variable
C7_Witness ==
    /\ pc = "SELECT_MODEL"
    /\ tahmin_sonuclari # <<>>
    /\ tahmin_sonuclari[1].yil # hedef_yil

(* C8: the subject prompt of mode 2 is left only with at least one         *)
(* non-empty token: the token list handed to the matcher is never empty.   *)
C8_TokenListNeverEmpty ==
    last.at = "USER_INPUT" /\ last.ret => top_alanlar_tahmin # <<>>

(* C9: an interrupt at any prompt leaves the loop at that prompt, asking   *)
(* again; the process does not terminate or move to another state.         *)
C9_InterruptAsksAgain ==
    last.ev.kind = "interrupt" /\ last.at # "START" =>
        ~last.ret /\ pc = last.at

C11_OneFilePerResult ==
    /\ pc = "OPTIONAL_SAVE" \/ last.at = "OPTIONAL_SAVE" => tahmin_sonuclari # <<>>
    /\ last.at = "OPTIONAL_SAVE" /\ last.ret /\ last.ev = Line(<<"E">>) =>
         Cardinality(files) = Len(tahmin_sonuclari)

====
